---------------------------- MODULE Spec2Model ----------------------------
(***************************************************************************)
(* A model of the third-person player / orbit-camera demo:                 *)
(*   InputManager (event.code revision), PlayerController,                 *)
(*   CameraController (CAMERA_CONFIG revision) and MainGame.               *)
(*                                                                         *)
(* Numbers are fixed point.  The units are chosen so that the physics of   *)
(* PlayerController.update is exact integer arithmetic:                    *)
(*   time       centiseconds            (delta = 25  is 0.25 s)            *)
(*   velocity   1/1000 unit per second  (8400 is 8.4 units/s)              *)
(*   length     1/1000 unit for camera offsets and configuration values,   *)
(*              1/100000 unit for world positions (velocity * time)        *)
(*   angle      milliradians                                               *)
(*   wheel      zoomDelta counts half notches (the handler adds +-0.5)     *)
(***************************************************************************)
EXTENDS Integers, Sequences, FiniteSets, TLC

(***************************************************************************)
(* Configuration constants of the program.                                 *)
(***************************************************************************)
WALK_SPEED == 3500
RUN_SPEED == 10000
GRAVITY == -19600
JUMP_HEIGHT == 1800
MOVEMENT_INPUT_THRESHOLD == 1000
\* PLAYER_CONFIG.ROTATION_SPEED, the slerp factor, in 1/1000
ROTATION_SPEED == 150

PITCH_LIMIT_MIN_Y == 2000
PITCH_LIMIT_MAX_Y == 8000
ZOOM_MIN == 2000
ZOOM_MAX == 15000
INITIAL_ZOOM == 6000
INITIAL_Y_OFFSET == 6000
INITIAL_ROTATION == -1500
SENSITIVITY_X == 3
SENSITIVITY_Y == 3
TARGET_OFFSET_Y == 1000

\* ZOOM_SENSITIVITY is 0.1 per unit of zoomDelta and the wheel handler adds
\* +-0.5 per event, so zoomFactor = 1 + h * 0.05 = (ZoomDen + h) / ZoomDen
\* for a zoomDelta of h half notches.
ZoomDen == 20

ANIM_NAMES ==
    [IDLE |-> "stand", WALK |-> "walk", RUN |-> "run",
     JUMP |-> "jumpUp", FALL |-> "jumpDown"]

\* ANIM_NAMES has no LAND entry (it is commented out), so animNames.LAND is
\* undefined and actions[undefined] reads the property named "undefined".
LAND == "undefined"

LoopRepeat == "LoopRepeat"
LoopOnce == "LoopOnce"

Null == "null"

(***************************************************************************)
(* Bounds of the model.                                                    *)
(***************************************************************************)
\* Tick durations the clock may report (centiseconds), besides 0.
DeltaShort == 10
DeltaLong == 25
\* A frame after the page was in the background.
DeltaStall == 50
\* A tick of a display that refreshes a hundred times a second.
DeltaFine == 1
\* The frames followed after the page opens.
MaxFrames == 5
\* Pointer movement of one mousemove event, in pixels.
MoveStep == 100
\* The accumulators are followed up to these magnitudes.
MaxMouseDelta == 200
MaxZoomDelta == 22
\* The frames followed while the wheel turns.
ZoomFrames == 3
\* The frames followed while the wheel turns and the mouse drags.
BoundsFrames == 2
\* The values a clamp is tried on: the multiples of ClampStep (1/1000 unit)
\* from -ClampSteps to ClampSteps times ClampStep, and the neighbours of the
\* limits.
ClampStep == 500
ClampSteps == 40
\* Wheel notches between two frames where the wheel is not the subject.
WheelBurst == 2
\* The tolerance of a comparison of heights: 1/1000 unit.
HeightTolerance == 100
\* The tolerance of a comparison of speeds and of distances walked, 1/1000:
\* direction vectors are kept to three decimals, and a speed of 10 units/s
\* multiplies the rounding of a direction by ten.
SpeedTolerance == 20

(***************************************************************************)
(* Arithmetic helpers.                                                     *)
(***************************************************************************)
Abs(a) == IF a < 0 THEN -a ELSE a

Sign(a) == IF a > 0 THEN 1 ELSE IF a < 0 THEN -1 ELSE 0

\* Division rounding toward zero (b > 0), so that -a / b = -(a / b).
Quot(a, b) == IF a >= 0 THEN a \div b ELSE -((-a) \div b)

Min(a, b) == IF a < b THEN a ELSE b

Max(a, b) == IF a > b THEN a ELSE b

RECURSIVE SqrtIter(_, _)
SqrtIter(n, x) ==
    LET y == (x + n \div x) \div 2
    IN  IF y >= x THEN x ELSE SqrtIter(n, y)

\* Math.sqrt, rounded down.
Sqrt(n) == IF n <= 0 THEN 0 ELSE SqrtIter(n, n)

Pi == 3142

\* sin on [0, Pi] by Bhaskara's rational approximation, result in 1/1000.
SinHalf(x) ==
    LET p == x * (Pi - x)
        d == (5 * Pi * Pi - 4 * p) \div 1000
    IN  (16 * p) \div d

\* Math.sin of an angle in milliradians, result in 1/1000.
Sin(a) ==
    LET r == a % (2 * Pi)
    IN  IF r <= Pi THEN SinHalf(r) ELSE -SinHalf(r - Pi)

\* Math.cos of an angle in milliradians, result in 1/1000.
Cos(a) == Sin(a + Pi \div 2)

\* The angle in [0, Pi/2] of the direction (x, z), x >= 0, z >= 0, measured
\* from the z axis: the largest a in lo .. hi with sin(a) * z <= cos(a) * x.
RECURSIVE AngleIter(_, _, _, _)
AngleIter(lo, hi, x, z) ==
    IF hi - lo <= 1 THEN lo
    ELSE LET mid == (lo + hi) \div 2
         IN  IF Sin(mid) * z <= Cos(mid) * x
             THEN AngleIter(mid, hi, x, z)
             ELSE AngleIter(lo, mid, x, z)

\* Math.atan2(x, z) in milliradians, in (-Pi, Pi]: the rotation about the y
\* axis that turns the direction (0, 0, 1) into the direction (x, 0, z).
Atan2(x, z) ==
    LET a == AngleIter(0, Pi \div 2 + 1, Abs(x), Abs(z))
        b == IF z >= 0 THEN a ELSE Pi - a
    IN  IF x >= 0 THEN b ELSE -b

\* An angle brought into (-Pi, Pi].
WrapAngle(a) ==
    LET r == a % (2 * Pi)
    IN  IF r > Pi THEN r - 2 * Pi ELSE r

\* A limiter that reflects a value at the limit it exceeds.
clampReflecting(value, min, max) ==
    IF value < min THEN min + (min - value)
    ELSE IF value > max THEN max - (value - max)
    ELSE value

\* THREE.MathUtils.clamp
clamp(value, min, max) == Max(min, Min(max, value))

(***************************************************************************)
(* THREE.Vector3 (components in 1/1000 for directions and velocities).     *)
(***************************************************************************)
Vector3(x, y, z) == [x |-> x, y |-> y, z |-> z]

ZeroVector == Vector3(0, 0, 0)

lengthSq(v) == v.x * v.x + v.y * v.y + v.z * v.z

\* Vector3.normalize: divideScalar(length() || 1); a unit vector has length 1000.
normalize(v) ==
    LET len == Sqrt(lengthSq(v))
    IN  IF len = 0 THEN v
        ELSE Vector3(Quot(v.x * 1000, len), Quot(v.y * 1000, len), Quot(v.z * 1000, len))

\* Vector3.crossVectors of two vectors in 1/1000, result in 1/1000.
crossVectors(a, b) ==
    Vector3(Quot(a.y * b.z - a.z * b.y, 1000),
            Quot(a.z * b.x - a.x * b.z, 1000),
            Quot(a.x * b.y - a.y * b.x, 1000))

\* Vector3.multiplyScalar by a scalar in 1/1000.
multiplyScalar(v, s) ==
    Vector3(Quot(v.x * s, 1000), Quot(v.y * s, 1000), Quot(v.z * s, 1000))

\* a + v * s for an integer s (Vector3.addScaledVector).
addScaledVector(a, v, s) == Vector3(a.x + v.x * s, a.y + v.y * s, a.z + v.z * s)


(***************************************************************************)
(* State.                                                                  *)
(***************************************************************************)
VARIABLES
    inputManager,      \* MainGame.inputManager: the InputManager's fields
    document,          \* the browser's pointer-lock state
    cameraController,  \* MainGame.cameraController: the orbit state
    camera,            \* MainGame.camera: position and viewing direction
    playerController,  \* MainGame.playerController: Null until the player model loads
    player,            \* the model flagged isPlayer: Null until it loads
    mixers,            \* MainGame.mixers: the models that own an AnimationMixer
    load,              \* the asynchronous load of each configured model
    renderer,          \* MainGame.renderer: info.render.frame, the frames rendered
    frameCalls         \* the calls MainGame.animate made in its latest frame, in order

vars ==
    <<inputManager, document, cameraController, camera, playerController,
      player, mixers, load, renderer, frameCalls>>

\* A null / not yet assigned object.
NoObject == [null |-> TRUE]

Codes == {"KeyW", "KeyA", "KeyS", "KeyD", "ShiftLeft", "ShiftRight", "Space"}

Buttons == {0, 1, 2}

\* loadModels, allModelConfigs: PLAYER_MODEL_CONFIG, STATIC_MODEL_CONFIGS and
\* ENV_MODEL_CONFIGS, each named by its file and, for the two horses, its place.
PLAYER_MODEL_CONFIG == "player"

allModelConfigs == {PLAYER_MODEL_CONFIG, "supergirl", "flash", "horse1", "horse2"}

\* A success callback that takes every model for the player.
isPlayerAlways(config) == TRUE

\* config.isPlayer: only PLAYER_MODEL_CONFIG carries the flag.
isPlayer(config) == config = PLAYER_MODEL_CONFIG

ClipNames == {"stand", "walk", "run", "jumpUp", "jumpDown"}

\* The clip sets a loaded player model may carry.
ClipSets == {{}, ClipNames, ClipNames \ {"jumpDown"}}

Deltas == {0, DeltaShort, DeltaLong, DeltaStall}

Movements == {-MoveStep, 0, MoveStep}

(***************************************************************************)
(* InputManager (event.code revision).                                     *)
(***************************************************************************)
\* InputManager.constructor
NewInputManager ==
    [keys |-> [c \in Codes |-> FALSE],
     jumpTriggered |-> FALSE,
     mouseDeltaX |-> 0,
     mouseDeltaY |-> 0,
     zoomDelta |-> 0,
     isCanvasActive |-> FALSE,
     mouseDown |-> [left |-> FALSE, middle |-> FALSE, right |-> FALSE]]

\* A keydown handler that fires the jump on the press, as the event.key
\* revision of InputManager does.
onKeyDownJumps(im, code) ==
    IF code \in DOMAIN im.keys
    THEN [im EXCEPT !.keys[code] = TRUE, !.jumpTriggered = @ \/ code = "Space"]
    ELSE im

\* document 'keydown'
onKeyDown(im, code) ==
    IF code \in DOMAIN im.keys THEN [im EXCEPT !.keys[code] = TRUE] ELSE im

\* A keyup handler that identifies the key by event.key, as the legacy
\* revision of InputManager does: while a shift key is held the keyup of a
\* letter key reports the capital letter, which is not among the keys.
onKeyUpByKey(im, code) ==
    IF code \in DOMAIN im.keys
       /\ ~(code \in {"KeyW", "KeyA", "KeyS", "KeyD"}
             /\ (im.keys.ShiftLeft \/ im.keys.ShiftRight))
    THEN [im EXCEPT !.keys[code] = FALSE, !.jumpTriggered = @ \/ code = "Space"]
    ELSE im

\* document 'keyup'
onKeyUp(im, code) ==
    LET released == IF code \in DOMAIN im.keys
                    THEN [im EXCEPT !.keys[code] = FALSE] ELSE im
    IN  IF code = "Space" THEN [released EXCEPT !.jumpTriggered = TRUE] ELSE released

\* canvas 'mouseover' / 'mouseout'
onMouseOver(im) == [im EXCEPT !.isCanvasActive = TRUE]

onMouseOut(im) == [im EXCEPT !.isCanvasActive = FALSE]

\* document 'mousemove'
onMouseMove(im, doc, movementX, movementY) ==
    IF doc.pointerLockElement = "body" \/ im.mouseDown.left
    THEN [im EXCEPT !.mouseDeltaX = @ + movementX, !.mouseDeltaY = @ + movementY]
    ELSE im

\* document 'mousedown': the new InputManager fields
onMouseDown(im, button, onCanvas) ==
    IF ~onCanvas THEN im
    ELSE [im EXCEPT !.mouseDown.left = IF button = 0 THEN TRUE ELSE @,
                    !.mouseDown.middle = IF button = 1 THEN TRUE ELSE @,
                    !.mouseDown.right = IF button = 2 THEN TRUE ELSE @]

\* document 'mousedown': document.body.requestPointerLock() on a right click
requestPointerLock(doc, button, onCanvas) ==
    IF onCanvas /\ button = 2 /\ doc.pointerLockElement /= "body"
    THEN [doc EXCEPT !.lockRequested = TRUE] ELSE doc

\* document 'mouseup': the new InputManager fields
onMouseUp(im, button) ==
    [im EXCEPT !.mouseDown.left = IF button = 0 THEN FALSE ELSE @,
               !.mouseDown.middle = IF button = 1 THEN FALSE ELSE @,
               !.mouseDown.right = IF button = 2 THEN FALSE ELSE @]

\* document 'mouseup': document.exitPointerLock() when the body holds the lock
exitPointerLock(doc, button) ==
    IF button = 2 /\ doc.pointerLockElement = "body"
    THEN [doc EXCEPT !.pointerLockElement = Null] ELSE doc

\* document 'wheel': zoomDelta += Math.sign(deltaY) * zoomSpeed (0.5)
onWheel(im, deltaY) == [im EXCEPT !.zoomDelta = @ + Sign(deltaY)]

\* A reset that clears the jump trigger with the deltas, every frame.
resetMouseDeltaAndJump(im) ==
    [im EXCEPT !.mouseDeltaX = 0, !.mouseDeltaY = 0, !.zoomDelta = 0,
               !.jumpTriggered = FALSE]

\* InputManager.resetMouseDelta
resetMouseDelta(im) ==
    [im EXCEPT !.mouseDeltaX = 0, !.mouseDeltaY = 0, !.zoomDelta = 0]

\* InputManager.isMoving
isMoving(im) ==
    im.keys["KeyW"] \/ im.keys["KeyA"] \/ im.keys["KeyS"] \/ im.keys["KeyD"]

\* A sprint test that reads the left shift key alone.
isSprintingLeftOnly(im) == im.keys["ShiftLeft"]

\* InputManager.isSprinting
isSprinting(im) == im.keys["ShiftLeft"] \/ im.keys["ShiftRight"]

(***************************************************************************)
(* PlayerController.                                                       *)
(***************************************************************************)
\* mixer.clipAction(clip): a stopped, repeating action
clipAction ==
    [run |-> "stopped", loop |-> LoopRepeat, clampWhenFinished |-> FALSE]

\* camera.getWorldDirection
getWorldDirection(cam) == normalize(cam.direction)

\* PlayerController.calculateMovementDirection
calculateMovementDirection(im, cam) ==
    LET direction ==
            Vector3((IF im.keys["KeyA"] THEN 1 ELSE 0) - (IF im.keys["KeyD"] THEN 1 ELSE 0),
                    0,
                    (IF im.keys["KeyW"] THEN 1 ELSE 0) - (IF im.keys["KeyS"] THEN 1 ELSE 0))
        cameraForward == normalize([getWorldDirection(cam) EXCEPT !.y = 0])
        cameraRight == normalize(crossVectors(cam.up, cameraForward))
        moveVector ==
            addScaledVector(addScaledVector(ZeroVector, cameraForward, direction.z),
                            cameraRight, direction.x)
    IN  IF lengthSq(direction) = 0 THEN direction ELSE normalize(moveVector)

\* A call of an AnimationAction method on the action of a clip.
Call(action, method) == [action |-> action, method |-> method]

\* An outgoing action that is faded out whatever it is.
fadeOutCallsAlwaysFade(current) ==
    IF current = Null THEN <<>> ELSE << Call(current, "fadeOut") >>

\* switchAnimation, "Fade out the current animation, if one is playing"
fadeOutCalls(current) ==
    IF current = Null THEN <<>>
    ELSE << Call(current, IF current = LAND THEN "stop" ELSE "fadeOut") >>

\* switchAnimation, "Reset the target animation, set its weight, fade it in,
\* and play"
fadeInCalls(targetAnimName) ==
    << Call(targetAnimName, "reset"), Call(targetAnimName, "setEffectiveWeight"),
       Call(targetAnimName, "fadeIn"), Call(targetAnimName, "play") >>

\* The calls that switchAnimation makes without the test for the current clip.
switchAnimationCallsAgain(pc, targetAnimName) ==
    IF pc.modelAnimations = NoObject THEN <<>>
    ELSE IF targetAnimName \notin DOMAIN pc.modelAnimations.actions THEN <<>>
    ELSE fadeOutCalls(pc.currentAnimation) \o fadeInCalls(targetAnimName)

\* The calls that switchAnimation makes without the test for a missing clip.
switchAnimationCallsMissing(pc, targetAnimName) ==
    IF pc.modelAnimations = NoObject THEN <<>>
    ELSE IF pc.currentAnimation = targetAnimName THEN <<>>
    ELSE fadeOutCalls(pc.currentAnimation) \o fadeInCalls(targetAnimName)

\* The calls that switchAnimation makes if it leaves the current clip alone.
switchAnimationCallsNoFadeOut(pc, targetAnimName) ==
    IF pc.modelAnimations = NoObject THEN <<>>
    ELSE IF targetAnimName \notin DOMAIN pc.modelAnimations.actions THEN <<>>
    ELSE IF pc.currentAnimation = targetAnimName THEN <<>>
    ELSE fadeInCalls(targetAnimName)

\* PlayerController.switchAnimation: the calls it makes on the clip actions
switchAnimationCalls(pc, targetAnimName) ==
    IF pc.modelAnimations = NoObject THEN <<>>
    ELSE IF targetAnimName \notin DOMAIN pc.modelAnimations.actions THEN <<>>
    ELSE IF pc.currentAnimation = targetAnimName THEN <<>>
    ELSE fadeOutCalls(pc.currentAnimation) \o fadeInCalls(targetAnimName)

\* The action after a call of one of its methods.
actionAfter(action, method) ==
    CASE method = "stop" -> [action EXCEPT !.run = "stopped"]
      [] method = "fadeOut" -> [action EXCEPT !.run = "fadeOut"]
      [] method = "fadeIn" -> [action EXCEPT !.run = "fadeIn"]
      [] OTHER -> action

\* The actions after a sequence of calls.
RECURSIVE actionsAfter(_, _)
actionsAfter(actions, calls) ==
    IF calls = <<>> THEN actions
    ELSE actionsAfter(
             [actions EXCEPT ![Head(calls).action] = actionAfter(@, Head(calls).method)],
             Tail(calls))

\* switchAnimation, "Handle settings for non-looping animations"
loopSettings(action, targetAnimName) ==
    [action EXCEPT
        !.loop = IF targetAnimName = LAND THEN LoopOnce ELSE LoopRepeat,
        !.clampWhenFinished = IF targetAnimName = LAND THEN TRUE ELSE @]

\* The controller after switchAnimation has made these calls.
switched(pc, targetAnimName, calls) ==
    IF calls = <<>> THEN pc
    ELSE [pc EXCEPT
             !.modelAnimations.actions =
                 [actionsAfter(@, calls) EXCEPT
                     ![targetAnimName] = loopSettings(@, targetAnimName)],
             !.currentAnimation = targetAnimName]

\* PlayerController.switchAnimation
switchAnimation(pc, targetAnimName) ==
    switched(pc, targetAnimName, switchAnimationCalls(pc, targetAnimName))

\* PlayerController.constructor
NewPlayerController(modelAnimations) ==
    LET fresh ==
            [movementSpeed |-> WALK_SPEED,
             horizontalVelocity |-> ZeroVector,
             isJumping |-> FALSE,
             velocityY |-> 0,
             currentAnimation |-> Null,
             modelAnimations |-> modelAnimations,
             hasFallAnimation |->
                 modelAnimations /= NoObject
                 /\ ANIM_NAMES.FALL \in DOMAIN modelAnimations.actions,
             hasLandAnimation |->
                 modelAnimations /= NoObject
                 /\ LAND \in DOMAIN modelAnimations.actions]
    IN  switchAnimation(fresh, ANIM_NAMES.IDLE)

\* The ground animation for the current input (lines 274 and 281).
targetGroundAnim(moving, sprinting) ==
    IF moving THEN (IF sprinting THEN ANIM_NAMES.RUN ELSE ANIM_NAMES.WALK)
    ELSE ANIM_NAMES.IDLE

\* The values a tick of update works on: the controller, the player model,
\* the input manager and the local justLanded.
Tick(pc, pl, im) == [pc |-> pc, pl |-> pl, im |-> im, justLanded |-> FALSE]

\* A horizontal velocity recomputed in every tick, on the ground or in the air.
updateHorizontalVelocityInAir(pc, im, cam) ==
    LET speed == IF isSprinting(im) THEN RUN_SPEED ELSE WALK_SPEED
    IN  [pc EXCEPT !.movementSpeed = speed,
                   !.horizontalVelocity =
                       multiplyScalar(calculateMovementDirection(im, cam), speed)]

\* update, "Calculate Horizontal Movement (ONLY IF ON GROUND)"
updateHorizontalVelocity(pc, im, cam) ==
    LET speed == IF isSprinting(im) THEN RUN_SPEED ELSE WALK_SPEED
    IN  IF ~pc.isJumping
        THEN [pc EXCEPT !.movementSpeed = speed,
                        !.horizontalVelocity =
                            multiplyScalar(calculateMovementDirection(im, cam), speed)]
        ELSE pc

\* A jump trigger honoured in the air as well.
updateJumpTriggerInAir(t) ==
    IF t.im.jumpTriggered
    THEN [t EXCEPT
             !.pc = switchAnimation(
                        [@ EXCEPT !.isJumping = TRUE,
                                  !.velocityY = Sqrt(-2 * GRAVITY * JUMP_HEIGHT)],
                        ANIM_NAMES.JUMP),
             !.im.jumpTriggered = FALSE]
    ELSE t

\* A jump that starts only if the model has the jump clip.
updateJumpTriggerNeedsClip(t) ==
    IF t.im.jumpTriggered /\ ~t.pc.isJumping
       /\ t.pc.modelAnimations /= NoObject
       /\ ANIM_NAMES.JUMP \in DOMAIN t.pc.modelAnimations.actions
    THEN [t EXCEPT
             !.pc = switchAnimation(
                        [@ EXCEPT !.isJumping = TRUE,
                                  !.velocityY = Sqrt(-2 * GRAVITY * JUMP_HEIGHT)],
                        ANIM_NAMES.JUMP),
             !.im.jumpTriggered = FALSE]
    ELSE t

\* update, "Jump Trigger Logic"
updateJumpTrigger(t) ==
    IF t.im.jumpTriggered /\ ~t.pc.isJumping
    THEN [t EXCEPT
             !.pc = switchAnimation(
                        [@ EXCEPT !.isJumping = TRUE,
                                  !.velocityY = Sqrt(-2 * GRAVITY * JUMP_HEIGHT)],
                        ANIM_NAMES.JUMP),
             !.im.jumpTriggered = FALSE]
    ELSE t

\* A gravity that stops acting once the player no longer rises.
applyGravityHovering(t, delta) ==
    LET velocityY == Max(0, t.pc.velocityY + Quot(GRAVITY * delta, 100))
    IN  [t EXCEPT
            !.pc = IF t.pc.hasFallAnimation /\ velocityY <= 0
                   THEN switchAnimation([@ EXCEPT !.velocityY = velocityY],
                                        ANIM_NAMES.FALL)
                   ELSE [@ EXCEPT !.velocityY = velocityY],
            !.pl.position.y = @ + velocityY * delta]

\* Gravity and height without the switch to the fall animation.
applyGravityWithoutFall(t, delta) ==
    [t EXCEPT
        !.pc.velocityY = @ + Quot(GRAVITY * delta, 100),
        !.pl.position.y = @ + (t.pc.velocityY + Quot(GRAVITY * delta, 100)) * delta]

\* A physics step that moves the player with the velocity the tick began with
\* and applies gravity afterwards.
applyGravityAfterMove(t, delta) ==
    [t EXCEPT
        !.pc.velocityY = @ + Quot(GRAVITY * delta, 100),
        !.pl.position.y = @ + t.pc.velocityY * delta]

\* update, "Physics & Position Update": gravity, height and the fall animation
applyGravity(t, delta) ==
    LET velocityY == t.pc.velocityY + Quot(GRAVITY * delta, 100)
    IN  [t EXCEPT
            !.pc = IF t.pc.hasFallAnimation /\ velocityY <= 0
                   THEN switchAnimation([@ EXCEPT !.velocityY = velocityY],
                                        ANIM_NAMES.FALL)
                   ELSE [@ EXCEPT !.velocityY = velocityY],
            !.pl.position.y = @ + velocityY * delta]

\* A ground check that drops a jump trigger that arrived during the flight.
groundCheckDropsTrigger(t) ==
    IF t.pl.position.y <= 0
    THEN [t EXCEPT !.pl.position.y = 0,
                   !.pc.isJumping = FALSE,
                   !.pc.velocityY = 0,
                   !.im.jumpTriggered = FALSE,
                   !.justLanded = TRUE]
    ELSE t

\* A ground check that forgets to stop the fall.
groundCheckKeepsVelocity(t) ==
    IF t.pl.position.y <= 0
    THEN [t EXCEPT !.pl.position.y = 0,
                   !.pc.isJumping = FALSE,
                   !.justLanded = TRUE]
    ELSE t

\* update, "Ground Check"
groundCheck(t) ==
    IF t.pl.position.y <= 0
    THEN [t EXCEPT !.pl.position.y = 0,
                   !.pc.isJumping = FALSE,
                   !.pc.velocityY = 0,
                   !.justLanded = TRUE]
    ELSE t

\* update, "Physics & Position Update"
updatePhysics(t, delta) ==
    IF t.pc.isJumping THEN groundCheck(applyGravity(t, delta)) ELSE t

\* A horizontal movement applied on the ground only.
applyHorizontalMovementOnGround(t, delta) ==
    IF t.pc.isJumping
    THEN t
    ELSE [t EXCEPT !.pl.position.x = @ + t.pc.horizontalVelocity.x * delta,
                   !.pl.position.z = @ + t.pc.horizontalVelocity.z * delta]

\* update, "Apply Horizontal Movement"
applyHorizontalMovement(t, delta) ==
    [t EXCEPT !.pl.position.x = @ + t.pc.horizontalVelocity.x * delta,
              !.pl.position.z = @ + t.pc.horizontalVelocity.z * delta]

\* Quaternion.setFromUnitVectors(MODEL_FORWARD_DIRECTION, lookDirection) for a
\* horizontal lookDirection: the rotation about y by atan2(x, z)
setFromUnitVectors(lookDirection) == Atan2(lookDirection.x, lookDirection.z)

\* Quaternion.slerp(target, t) between two rotations about the y axis: the
\* angle moves by the fraction t (1/1000) of the shorter arc to the target.
slerp(quaternion, target, t) ==
    WrapAngle(quaternion + Quot(WrapAngle(target - quaternion) * t, 1000))

\* A rotation that does not ask whether the player is on the ground.
updatePlayerRotationInAir(t, moving) ==
    IF moving /\ lengthSq(t.pc.horizontalVelocity) > MOVEMENT_INPUT_THRESHOLD
    THEN [t EXCEPT !.pl.quaternion =
              slerp(@, setFromUnitVectors(normalize(t.pc.horizontalVelocity)),
                    ROTATION_SPEED)]
    ELSE t

\* update, "Rotation"; moving was read when the tick began
updatePlayerRotation(t, moving) ==
    IF moving /\ ~t.pc.isJumping
       /\ lengthSq(t.pc.horizontalVelocity) > MOVEMENT_INPUT_THRESHOLD
    THEN [t EXCEPT !.pl.quaternion =
              slerp(@, setFromUnitVectors(normalize(t.pc.horizontalVelocity)),
                    ROTATION_SPEED)]
    ELSE t

\* An animation update that reselects the ground animation whatever the
\* current action's loop mode is.
updateAnimationInterrupting(t, moving, sprinting) ==
    IF t.justLanded
    THEN IF t.pc.hasLandAnimation
         THEN [t EXCEPT !.pc = switchAnimation(@, LAND)]
         ELSE [t EXCEPT !.pc = switchAnimation(@, targetGroundAnim(moving, sprinting))]
    ELSE IF ~t.pc.isJumping
    THEN [t EXCEPT !.pc = switchAnimation(@, targetGroundAnim(moving, sprinting))]
    ELSE t

\* An animation update that leaves the landing tick to the next tick.
updateAnimationAfterLanding(t, moving, sprinting) ==
    IF t.justLanded THEN t
    ELSE IF ~t.pc.isJumping
    THEN IF t.pc.currentAnimation = Null
            \/ t.pc.modelAnimations.actions[t.pc.currentAnimation].loop = LoopRepeat
         THEN [t EXCEPT !.pc = switchAnimation(@, targetGroundAnim(moving, sprinting))]
         ELSE t
    ELSE t

\* update, "Animation Update"; moving and sprinting were read when the tick began
updateAnimation(t, moving, sprinting) ==
    IF t.justLanded
    THEN IF t.pc.hasLandAnimation
         THEN [t EXCEPT !.pc = switchAnimation(@, LAND)]
         ELSE [t EXCEPT !.pc = switchAnimation(@, targetGroundAnim(moving, sprinting))]
    ELSE IF ~t.pc.isJumping
    THEN IF t.pc.currentAnimation = Null
            \/ t.pc.modelAnimations.actions[t.pc.currentAnimation].loop = LoopRepeat
         THEN [t EXCEPT !.pc = switchAnimation(@, targetGroundAnim(moving, sprinting))]
         ELSE t
    ELSE t

\* PlayerController.update: the controller (pc), the player model (pl) and the
\* input manager (im) after the tick
update(pc, pl, im, cam, delta) ==
    updateAnimation(
        updatePlayerRotation(
            applyHorizontalMovement(
                updatePhysics(
                    updateJumpTrigger(Tick(updateHorizontalVelocity(pc, im, cam), pl, im)),
                    delta),
                delta),
            isMoving(im)),
        isMoving(im), isSprinting(im))

(***************************************************************************)
(* CameraController (CAMERA_CONFIG revision).                              *)
(***************************************************************************)
\* CameraController.constructor
NewCameraController ==
    [player |-> Null,
     rotationAngle |-> INITIAL_ROTATION,
     zoomDistance |-> INITIAL_ZOOM,
     yOffset |-> INITIAL_Y_OFFSET]

\* THREE.PerspectiveCamera: at the origin, looking down -z, up = +y
NewCamera ==
    [position |-> ZeroVector,
     direction |-> Vector3(0, 0, -1000),
     up |-> Vector3(0, 1000, 0)]

\* update, the condition of "Rotation" and of "Pitch"
orbitHeld(im) ==
    im.mouseDown.right \/ (im.mouseDown.left /\ im.isCanvasActive)

\* A rotation that adds the mouse movement to the angle.
updateRotationAdding(cc, im) ==
    IF orbitHeld(im)
    THEN [cc EXCEPT !.rotationAngle = @ + im.mouseDeltaX * SENSITIVITY_X]
    ELSE cc

\* update, "Rotation (Horizontal Orbit)"
updateRotation(cc, im) ==
    IF orbitHeld(im)
    THEN [cc EXCEPT !.rotationAngle = @ - im.mouseDeltaX * SENSITIVITY_X]
    ELSE cc

\* update, "Pitch (Vertical Orbit)"
updatePitch(cc, im) ==
    IF orbitHeld(im)
    THEN [cc EXCEPT !.yOffset =
              clamp(@ + im.mouseDeltaY * SENSITIVITY_Y * 2,
                    PITCH_LIMIT_MIN_Y, PITCH_LIMIT_MAX_Y)]
    ELSE cc

\* value * zoomFactor, zoomFactor = 1.0 + zoomDelta * ZOOM_SENSITIVITY
timesZoomFactor(value, zoomDelta) == Quot(value * (ZoomDen + zoomDelta), ZoomDen)

\* A zoom that scales the distance and the height and clamps neither.
updateZoomUnclamped(cc, im) ==
    IF im.zoomDelta /= 0
    THEN [cc EXCEPT !.zoomDistance = timesZoomFactor(@, im.zoomDelta),
                    !.yOffset = timesZoomFactor(@, im.zoomDelta)]
    ELSE cc

\* A zoom that scales the distance and leaves the height alone.
updateZoomDistanceOnly(cc, im) ==
    IF im.zoomDelta /= 0
    THEN [cc EXCEPT
             !.zoomDistance =
                 Max(ZOOM_MIN, Min(ZOOM_MAX, timesZoomFactor(@, im.zoomDelta)))]
    ELSE cc

\* update, "Zoom"
updateZoom(cc, im) ==
    IF im.zoomDelta /= 0
    THEN [cc EXCEPT
             !.zoomDistance =
                 Max(ZOOM_MIN, Min(ZOOM_MAX, timesZoomFactor(@, im.zoomDelta))),
             !.yOffset =
                 clamp(timesZoomFactor(@, im.zoomDelta),
                       PITCH_LIMIT_MIN_Y, PITCH_LIMIT_MAX_Y)]
    ELSE cc

\* update, "Calculate Final Camera Position" (world position, 1/100000 unit)
cameraPosition(cc, pl) ==
    Vector3(pl.position.x + Quot(cc.zoomDistance * Sin(cc.rotationAngle), 10),
            pl.position.y + cc.yOffset * 100,
            pl.position.z + Quot(cc.zoomDistance * Cos(cc.rotationAngle), 10))

\* update, "Update LookAt": the viewing direction from position to the target
\* player.position + cameraTargetOffset (1/1000 unit, not normalized)
lookAt(position, pl) ==
    Vector3(Quot(pl.position.x - position.x, 100),
            Quot(pl.position.y + TARGET_OFFSET_Y * 100 - position.y, 100),
            Quot(pl.position.z - position.z, 100))

\* update, "Calculate Final Camera Position" and "Update LookAt"
placeCamera(cam, position, pl) ==
    [cam EXCEPT !.position = position, !.direction = lookAt(position, pl)]

\* The values a frame works on: the input manager, the camera controller, the
\* camera, the player controller, the player model, and the calls made so far.
Frame(im, cc, cam, pc, pl) ==
    [im |-> im, cc |-> cc, cam |-> cam, pc |-> pc, pl |-> pl, calls |-> <<>>]

\* A call made during the frame.
called(f, name) == [f EXCEPT !.calls = Append(@, name)]

\* update, "Update Camera State based on Input"
updateOrbit(cc, im) == updateZoom(updatePitch(updateRotation(cc, im), im), im)

\* update, from "Calculate Final Camera Position" to "Reset Input Deltas"
followPlayer(f) ==
    [f EXCEPT !.cam = placeCamera(@, cameraPosition(f.cc, f.pl), f.pl),
              !.im = resetMouseDelta(@)]

\* An update that applies and resets the input before it looks for the player,
\* as the first CameraController does.
cameraUpdateWithoutPlayer(f) ==
    IF f.cc.player = Null
    THEN [f EXCEPT !.cc = updateOrbit(@, f.im), !.im = resetMouseDelta(@)]
    ELSE followPlayer([f EXCEPT !.cc = updateOrbit(@, f.im)])

\* CameraController.update
cameraUpdate(f) ==
    IF f.cc.player = Null THEN f
    ELSE followPlayer([f EXCEPT !.cc = updateOrbit(@, f.im)])

(***************************************************************************)
(* MainGame.                                                               *)
(***************************************************************************)
\* loadModels, onLoad: "Animation Setup"
modelAnimationsOf(clips) ==
    IF clips = {} THEN NoObject ELSE [actions |-> [c \in clips |-> clipAction]]

\* ModelLoader.loadModel, success callback: model.position.set(config.position)
\* model.quaternion: the player model is only ever turned about the y axis, so
\* the quaternion is kept as the angle of that rotation, in milliradians.
loadedModel == [position |-> ZeroVector, quaternion |-> 0]

\* animate, "this.mixers.forEach((mixer) => mixer.update(delta))"
mixersUpdate(f, mx) ==
    [f EXCEPT !.calls = @ \o [i \in 1..Len(mx) |-> "mixer.update"]]

\* The result t of PlayerController.update stored back into the frame.
playerTick(f, t) == [f EXCEPT !.pc = t.pc, !.pl = t.pl, !.im = t.im]

\* animate, "if (this.playerController) this.playerController.update(delta)"
playerUpdate(f, delta) ==
    IF f.pc /= NoObject
    THEN called(playerTick(f, update(f.pc, f.pl, f.im, f.cam, delta)),
                "playerController.update")
    ELSE f

\* animate, "if (this.cameraController) this.cameraController.update()"
cameraTick(f) == called(cameraUpdate(f), "cameraController.update")

\* A frame that updates the camera before the player.
animateCameraFirst(f, mx, delta) ==
    called(playerUpdate(cameraTick(mixersUpdate(f, mx)), delta), "renderer.render")

\* MainGame.animate: the state after one frame
animate(f, mx, delta) ==
    called(cameraTick(playerUpdate(mixersUpdate(f, mx), delta)), "renderer.render")

(***************************************************************************)
(* Initial state: after new MainGame(), every load pending.                *)
(***************************************************************************)
Init ==
    /\ inputManager = NewInputManager
    /\ document = [pointerLockElement |-> Null, lockRequested |-> FALSE]
    /\ cameraController = NewCameraController
    /\ camera = NewCamera
    /\ playerController = NoObject
    /\ player = NoObject
    /\ mixers = <<>>
    /\ load = [config \in allModelConfigs |-> "pending"]
    /\ renderer = [frame |-> 0]
    /\ frameCalls = <<>>

(***************************************************************************)
(* Actions: one per event handler, callback or frame.                      *)
(***************************************************************************)
InputOnly ==
    UNCHANGED <<cameraController, camera, playerController, player, mixers,
                load, renderer, frameCalls>>

KeyDown(code) ==
    /\ inputManager' = onKeyDown(inputManager, code)
    /\ UNCHANGED document
    /\ InputOnly

KeyUp(code) ==
    /\ inputManager' = onKeyUp(inputManager, code)
    /\ UNCHANGED document
    /\ InputOnly

MouseOver ==
    /\ inputManager' = onMouseOver(inputManager)
    /\ UNCHANGED document
    /\ InputOnly

MouseOut ==
    /\ inputManager' = onMouseOut(inputManager)
    /\ UNCHANGED document
    /\ InputOnly

MouseMove(movementX, movementY) ==
    /\ inputManager' = onMouseMove(inputManager, document, movementX, movementY)
    /\ Abs(inputManager'.mouseDeltaX) <= MaxMouseDelta
    /\ Abs(inputManager'.mouseDeltaY) <= MaxMouseDelta
    /\ UNCHANGED document
    /\ InputOnly

\* While the pointer is locked, mouse events are dispatched to the lock target
\* (the body), never to the canvas.
MouseDown(button, onCanvas) ==
    /\ onCanvas => document.pointerLockElement = Null
    /\ inputManager' = onMouseDown(inputManager, button, onCanvas)
    /\ document' = requestPointerLock(document, button, onCanvas)
    /\ InputOnly

MouseUp(button) ==
    /\ inputManager' = onMouseUp(inputManager, button)
    /\ document' = exitPointerLock(document, button)
    /\ InputOnly

Wheel(deltaY) ==
    /\ inputManager' = onWheel(inputManager, deltaY)
    /\ Abs(inputManager'.zoomDelta) <= MaxZoomDelta
    /\ UNCHANGED document
    /\ InputOnly

\* The browser grants a pending pointer-lock request.
PointerLockGranted ==
    /\ document.lockRequested
    /\ document' = [pointerLockElement |-> "body", lockRequested |-> FALSE]
    /\ UNCHANGED inputManager
    /\ InputOnly

\* The browser refuses a pending request, or the user leaves the lock (Escape).
PointerLockLost ==
    /\ document.lockRequested \/ document.pointerLockElement = "body"
    /\ document' = [pointerLockElement |-> Null, lockRequested |-> FALSE]
    /\ UNCHANGED inputManager
    /\ InputOnly

\* loadModels, onLoad of the model of config, whose file carries clips
ModelLoaded(config, clips) ==
    /\ load[config] = "pending"
    /\ load' = [load EXCEPT ![config] = "loaded"]
    /\ mixers' = IF clips = {} THEN mixers ELSE Append(mixers, config)
    /\ IF isPlayer(config)
       THEN /\ player' = loadedModel
            /\ playerController' = NewPlayerController(modelAnimationsOf(clips))
            /\ cameraController' = [cameraController EXCEPT !.player = config]
       ELSE UNCHANGED <<player, playerController, cameraController>>
    /\ UNCHANGED <<inputManager, document, camera, renderer, frameCalls>>

\* loadModels, onError of the model of config
ModelLoadFailed(config) ==
    /\ load[config] = "pending"
    /\ load' = [load EXCEPT ![config] = "failed"]
    /\ UNCHANGED <<inputManager, document, cameraController, camera,
                   playerController, player, mixers, renderer, frameCalls>>

\* loadModels, onLoad for the model flagged isPlayer
PlayerLoaded(clips) == ModelLoaded(PLAYER_MODEL_CONFIG, clips)

\* loadModels, onError for the model flagged isPlayer
PlayerLoadFailed == ModelLoadFailed(PLAYER_MODEL_CONFIG)

\* The state after a frame that ends as f.
FrameEnds(f) ==
    /\ inputManager' = f.im
    /\ cameraController' = f.cc
    /\ camera' = f.cam
    /\ playerController' = f.pc
    /\ player' = f.pl
    /\ frameCalls' = f.calls

\* requestAnimationFrame callback: one frame of MainGame.animate
Animate(delta) ==
    /\ renderer.frame < MaxFrames
    /\ FrameEnds(animate(Frame(inputManager, cameraController, camera,
                               playerController, player), mixers, delta))
    /\ renderer' = [renderer EXCEPT !.frame = @ + 1]
    /\ UNCHANGED <<document, mixers, load>>

\* requestAnimationFrame callback in a run that is followed for ever: one
\* frame of MainGame.animate, the frame counter wrapping at MaxFrames.
AnimateOn(delta) ==
    /\ FrameEnds(animate(Frame(inputManager, cameraController, camera,
                               playerController, player), mixers, delta))
    /\ renderer' = [renderer EXCEPT !.frame = (@ + 1) % MaxFrames]
    /\ UNCHANGED <<document, mixers, load>>

(***************************************************************************)
(* Specifications.  Each follows the whole program on the part of the      *)
(* input alphabet its properties are about.                                *)
(***************************************************************************)
\* Keyboard, load and frames: the player's jump state machine.
JumpCodes == {"KeyW", "Space"}

NextPlayer ==
    \/ \E code \in JumpCodes : KeyDown(code)
    \/ \E code \in JumpCodes : KeyUp(code)
    \/ PlayerLoadFailed
    \/ \E clips \in ClipSets : PlayerLoaded(clips)
    \/ \E delta \in Deltas : Animate(delta)

SpecPlayer == Init /\ [][NextPlayer]_vars

\* Movement, sprint and jump keys on a model without clips: horizontal motion.
AirCodes == {"KeyW", "ShiftLeft", "Space"}

NextAir ==
    \/ \E code \in AirCodes : KeyDown(code)
    \/ \E code \in AirCodes : KeyUp(code)
    \/ PlayerLoaded({})
    \/ \E delta \in {DeltaShort, DeltaLong} : Animate(delta)

SpecAir == Init /\ [][NextAir]_vars

\* The keyboard alone.
NextInput ==
    \/ \E code \in Codes : KeyDown(code)
    \/ \E code \in Codes : KeyUp(code)

SpecInput == Init /\ [][NextInput]_vars

\* Mouse buttons, hover, pointer lock and mouse motion: the camera orbit.
NextOrbit ==
    \/ MouseOver
    \/ MouseOut
    \/ \E button \in {0, 2} : MouseDown(button, TRUE)
    \/ \E button \in {0, 2} : MouseUp(button)
    \/ \E movementY \in {0, MoveStep} : MouseMove(MoveStep, movementY)
    \/ PointerLockGranted
    \/ PointerLockLost
    \/ PlayerLoaded({})
    \/ PlayerLoadFailed
    \/ Animate(DeltaShort)

SpecOrbit == Init /\ [][NextOrbit]_vars

\* The wheel: camera zoom, followed for ZoomFrames frames.

NextZoom ==
    \/ \E deltaY \in {-MoveStep, MoveStep} : Wheel(deltaY)
    \/ PlayerLoaded({})
    \/ PlayerLoadFailed
    \/ renderer.frame < ZoomFrames /\ Animate(DeltaShort)

SpecZoom == Init /\ [][NextZoom]_vars

\* The wheel together with a vertical drag of the primary button: the limits
\* of the orbit.
NextBounds ==
    \/ MouseOver
    \/ MouseDown(0, TRUE)
    \/ \E movementY \in {-MaxMouseDelta, MaxMouseDelta} : MouseMove(0, movementY)
    \/ Wheel(-MoveStep)
    \/ inputManager.zoomDelta < WheelBurst /\ Wheel(MoveStep)
    \/ PlayerLoaded({})
    \/ renderer.frame < BoundsFrames /\ Animate(DeltaShort)

SpecBounds == Init /\ [][NextBounds]_vars

\* Movement, sprint and jump keys on a model with clips: animation selection.
NextAnim ==
    \/ \E code \in AirCodes : KeyDown(code)
    \/ \E code \in AirCodes : KeyUp(code)
    \/ \E clips \in ClipSets \ {{}} : PlayerLoaded(clips)
    \/ Animate(DeltaLong)

SpecAnim == Init /\ [][NextAnim]_vars

\* A model with a clip of the name that ANIM_NAMES.LAND evaluates to, and one
\* without: the landing clip.
LandClipSets == {ClipNames \cup {LAND}, ClipNames}

NextLand ==
    \/ \E code \in AirCodes : KeyDown(code)
    \/ \E code \in AirCodes : KeyUp(code)
    \/ \E clips \in LandClipSets : PlayerLoaded(clips)
    \/ Animate(DeltaLong)

SpecLand == Init /\ [][NextLand]_vars

\* The jump key, the landing clip and frames without end: what happens
\* eventually.  animate reschedules itself with requestAnimationFrame as its
\* first statement, so frames keep occurring; a frame is always enabled, and
\* weak fairness of the frames of positive duration is stated as what it then
\* amounts to, their recurrence.  Frames of duration 0 may occur in between.
PositiveFrame == \E delta \in Deltas \ {0} : AnimateOn(delta)

NextLive ==
    \/ KeyDown("Space")
    \/ KeyUp("Space")
    \/ \E clips \in LandClipSets : PlayerLoaded(clips)
    \/ AnimateOn(0)
    \/ PositiveFrame

SpecLive ==
    Init /\ [][NextLive]_vars /\ WF_vars(NextLive) /\ []<><<PositiveFrame>>_vars

\* The four movement keys in every combination on a model with clips, followed
\* for ZoomFrames frames.
MoveCodes == {"KeyW", "KeyA", "KeyS", "KeyD"}

NextMove ==
    \/ \E code \in MoveCodes : KeyDown(code)
    \/ \E code \in MoveCodes : KeyUp(code)
    \/ PlayerLoaded(ClipNames)
    \/ renderer.frame < ZoomFrames /\ Animate(DeltaLong)

SpecMove == Init /\ [][NextMove]_vars

\* The loads of all the configured models, completing in every order with
\* either outcome, with or without clips, between frames; the forward key.
NextLoad ==
    \/ KeyDown("KeyW")
    \/ KeyUp("KeyW")
    \/ \E config \in allModelConfigs, clips \in {{}, ClipNames} :
           ModelLoaded(config, clips)
    \/ \E config \in allModelConfigs : ModelLoadFailed(config)
    \/ renderer.frame < ZoomFrames /\ Animate(DeltaLong)

SpecLoad == Init /\ [][NextLoad]_vars

\* The forward and the jump key on a model with clips, frames of a short and
\* of a long duration, followed for ZoomFrames frames: the states a second
\* controller is compared in.
NextTwin ==
    \/ \E code \in JumpCodes : KeyDown(code)
    \/ \E code \in JumpCodes : KeyUp(code)
    \/ PlayerLoaded(ClipNames)
    \/ \E delta \in {DeltaShort, DeltaStall} :
           renderer.frame < ZoomFrames /\ Animate(delta)

SpecTwin == Init /\ [][NextTwin]_vars

(***************************************************************************)
(* The legacy revision: InputManager identifying keys by event.key and the *)
(* PlayerController that moves the player by a fixed step per frame.  Its  *)
(* objects are kept in the same variables; document also holds the keys    *)
(* that are physically down, from which the browser derives event.key.     *)
(* The camera stays as constructed: no mouse event occurs.                 *)
(***************************************************************************)
\* PlayerController (legacy), "this.movementSpeed = this.inputManager.keys.shift
\* ? 0.1 : 0.05", "this.gravity = -0.002", "this.jumpDuration = 100", in
\* 1/1000 unit per frame; positions of this revision are in 1/1000 unit.
LEGACY_RUN_STEP == 100
LEGACY_WALK_STEP == 50
LEGACY_GRAVITY == -2
LEGACY_JUMP_DURATION == 100
\* "this.player.quaternion.slerp(targetQuaternion, 0.1)", in 1/1000
LEGACY_SLERP == 100

\* The physical keys followed, named by their event.code.
LegacyCodes == {"KeyW", "KeyS", "ShiftLeft", "Space"}

\* event.key of an event of the physical key code while the keys of keyboard
\* are down: a letter key reports the capital letter while shift is down.
eventKey(code, keyboard) ==
    CASE code = "ShiftLeft" -> "Shift"
      [] code = "Space" -> " "
      [] code = "KeyW" -> IF "ShiftLeft" \in keyboard THEN "W" ELSE "w"
      [] code = "KeyS" -> IF "ShiftLeft" \in keyboard THEN "S" ELSE "s"

\* InputManager.constructor (legacy)
NewLegacyInputManager ==
    [keys |-> [w |-> FALSE, a |-> FALSE, s |-> FALSE, d |-> FALSE, shift |-> FALSE],
     jumpTriggered |-> FALSE]

\* document 'keydown' (legacy)
legacyOnKeyDown(im, key) ==
    LET named == IF key \in DOMAIN im.keys THEN [im EXCEPT !.keys[key] = TRUE] ELSE im
        shifted == IF key = "Shift" THEN [named EXCEPT !.keys.shift = TRUE] ELSE named
    IN  IF key = " " THEN [shifted EXCEPT !.jumpTriggered = TRUE] ELSE shifted

\* A keyup handler that folds the letter to lower case before the lookup.
legacyOnKeyUpAnyCase(im, key) ==
    LET lower == CASE key = "W" -> "w" [] key = "S" -> "s" [] OTHER -> key
        named == IF lower \in DOMAIN im.keys THEN [im EXCEPT !.keys[lower] = FALSE] ELSE im
    IN  IF key = "Shift" THEN [named EXCEPT !.keys.shift = FALSE] ELSE named

\* document 'keyup' (legacy)
legacyOnKeyUp(im, key) ==
    LET named == IF key \in DOMAIN im.keys THEN [im EXCEPT !.keys[key] = FALSE] ELSE im
    IN  IF key = "Shift" THEN [named EXCEPT !.keys.shift = FALSE] ELSE named

\* PlayerController.constructor (legacy)
NewLegacyPlayerController ==
    [movementSpeed |-> LEGACY_RUN_STEP,
     horizontalVelocity |-> ZeroVector,
     isJumping |-> FALSE,
     velocityY |-> 1000,
     initialJumpVelocity |-> Quot(LEGACY_JUMP_DURATION, 2) * Abs(LEGACY_GRAVITY)]

\* PlayerController.calculatePlayerMovement (legacy)
calculatePlayerMovement(pc, im, cam) ==
    LET direction ==
            Vector3((IF im.keys.a THEN 1 ELSE 0) - (IF im.keys.d THEN 1 ELSE 0),
                    0,
                    (IF im.keys.w THEN 1 ELSE 0) - (IF im.keys.s THEN 1 ELSE 0))
        cameraForward == normalize([getWorldDirection(cam) EXCEPT !.y = 0])
        cameraRight == crossVectors(cam.up, cameraForward)
        moveVector ==
            addScaledVector(addScaledVector(ZeroVector, cameraForward, direction.z),
                            cameraRight, direction.x)
    IN  multiplyScalar(normalize(moveVector), pc.movementSpeed)

\* PlayerController.update (legacy) on a model without animations
legacyUpdate(pc, pl, im, cam) ==
    LET jumps == im.jumpTriggered /\ ~pc.isJumping
        pc1 == IF jumps
               THEN [pc EXCEPT !.isJumping = TRUE, !.velocityY = pc.initialJumpVelocity]
               ELSE pc
        im1 == IF jumps THEN [im EXCEPT !.jumpTriggered = FALSE] ELSE im
        movement == calculatePlayerMovement(pc1, im1, cam)
        velocityY == pc1.velocityY + LEGACY_GRAVITY
        y == pl.position.y + velocityY
        moved == [pl EXCEPT !.position.x = @ + movement.x,
                            !.position.z = @ + movement.z]
    IN  IF pc1.isJumping
        THEN [pc |-> IF y <= 0
                     THEN [pc1 EXCEPT !.horizontalVelocity = movement,
                                      !.isJumping = FALSE, !.velocityY = 0]
                     ELSE [pc1 EXCEPT !.horizontalVelocity = movement,
                                      !.velocityY = velocityY],
              pl |-> [moved EXCEPT !.position.y = IF y <= 0 THEN 0 ELSE y],
              im |-> im1]
        ELSE IF lengthSq(movement) > 0
        THEN [pc |-> [pc1 EXCEPT !.horizontalVelocity = movement,
                                 !.movementSpeed = IF im1.keys.shift
                                                   THEN LEGACY_RUN_STEP
                                                   ELSE LEGACY_WALK_STEP],
              pl |-> [moved EXCEPT !.quaternion =
                         slerp(@, setFromUnitVectors(normalize(movement)),
                               LEGACY_SLERP)],
              im |-> im1]
        ELSE [pc |-> [pc1 EXCEPT !.horizontalVelocity = movement],
              pl |-> moved,
              im |-> im1]

InitLegacy ==
    /\ inputManager = NewLegacyInputManager
    /\ document = [pointerLockElement |-> Null, lockRequested |-> FALSE,
                   keyboard |-> {}]
    /\ cameraController = NewCameraController
    /\ camera = NewCamera
    /\ playerController = NoObject
    /\ player = NoObject
    /\ mixers = <<>>
    /\ load = [config \in allModelConfigs |-> "pending"]
    /\ renderer = [frame |-> 0]
    /\ frameCalls = <<>>

\* The user presses the physical key code (or holds it: the key repeats).
LegacyKeyDown(code) ==
    /\ inputManager' = legacyOnKeyDown(inputManager, eventKey(code, document.keyboard))
    /\ document' = [document EXCEPT !.keyboard = @ \cup {code}]
    /\ InputOnly

\* The user releases the physical key code.
LegacyKeyUp(code) ==
    /\ code \in document.keyboard
    /\ inputManager' = legacyOnKeyUp(inputManager, eventKey(code, document.keyboard))
    /\ document' = [document EXCEPT !.keyboard = @ \ {code}]
    /\ InputOnly

\* loadModels (legacy), onLoad of the player model, which has no clips
LegacyPlayerLoaded ==
    /\ load[PLAYER_MODEL_CONFIG] = "pending"
    /\ load' = [load EXCEPT ![PLAYER_MODEL_CONFIG] = "loaded"]
    /\ player' = loadedModel
    /\ playerController' = NewLegacyPlayerController
    /\ cameraController' = [cameraController EXCEPT !.player = PLAYER_MODEL_CONFIG]
    /\ UNCHANGED <<inputManager, document, camera, mixers, renderer, frameCalls>>

\* requestAnimationFrame callback (legacy): the player's update of one frame
LegacyAnimate ==
    /\ renderer.frame < ZoomFrames
    /\ IF playerController /= NoObject
       THEN LET t == legacyUpdate(playerController, player, inputManager, camera)
            IN  /\ playerController' = t.pc
                /\ player' = t.pl
                /\ inputManager' = t.im
                /\ frameCalls' = <<"playerController.update", "cameraController.update",
                                   "renderer.render">>
       ELSE /\ UNCHANGED <<playerController, player, inputManager>>
            /\ frameCalls' = <<"cameraController.update", "renderer.render">>
    /\ renderer' = [renderer EXCEPT !.frame = @ + 1]
    /\ UNCHANGED <<document, cameraController, camera, mixers, load>>

NextLegacy ==
    \/ \E code \in LegacyCodes : LegacyKeyDown(code)
    \/ \E code \in LegacyCodes : LegacyKeyUp(code)
    \/ LegacyPlayerLoaded
    \/ LegacyAnimate

SpecLegacy == InitLegacy /\ [][NextLegacy]_vars

\* The jump key and frames without end on a model without clips, the frames
\* of every duration of Deltas and of the fine one in every mixture: the
\* heights a jump passes through.
NextJump ==
    \/ KeyDown("Space")
    \/ KeyUp("Space")
    \/ PlayerLoaded({})
    \/ \E delta \in Deltas \cup {DeltaFine} : AnimateOn(delta)

SpecJump == Init /\ [][NextJump]_vars

\* The jump key with the mouse and the wheel: what a frame consumes, followed
\* for ZoomFrames frames.
NextReset ==
    \/ KeyDown("Space")
    \/ KeyUp("Space")
    \/ MouseOver
    \/ MouseDown(0, TRUE)
    \/ MouseMove(MoveStep, MoveStep)
    \/ inputManager.zoomDelta < WheelBurst /\ Wheel(MoveStep)
    \/ PlayerLoaded({})
    \/ renderer.frame < ZoomFrames /\ Animate(DeltaLong)

SpecReset == Init /\ [][NextReset]_vars

(***************************************************************************)
(* Properties.                                                             *)
(***************************************************************************)
\* A step that is a frame of MainGame.animate.
IsFrame == renderer'.frame /= renderer.frame

\* The frame began with a player controller.
HasPlayer == playerController /= NoObject

\* The frame began with the player in the air.
InAir == HasPlayer /\ playerController.isJumping

\* The position of a call in the order MainGame.animate makes its calls in.
Rank(call) ==
    CASE call = "mixer.update" -> 1
      [] call = "playerController.update" -> 2
      [] call = "cameraController.update" -> 3
      [] call = "renderer.render" -> 4

\* C1: while the player is in the air no step changes the horizontal velocity:
\* not a key event, not the takeoff tick's successors, not the landing tick,
\* whatever the movement keys, the sprint key and the camera direction are.
C1_NoAirControl ==
    [][InAir => playerController'.horizontalVelocity
                    = playerController.horizontalVelocity]_vars

\* The player is falling with a horizontal velocity that the keys held now
\* and the camera direction would not give on the ground.
C1_Witness ==
    /\ HasPlayer
    /\ playerController.isJumping
    /\ playerController.velocityY < 0
    /\ playerController.horizontalVelocity
           /= updateHorizontalVelocity([playerController EXCEPT !.isJumping = FALSE],
                                       inputManager, camera).horizontalVelocity

\* C2: a frame that begins in the air leaves a pending jump trigger pending,
\* does not start the jump clip, and if the player is still in the air at its
\* end the vertical velocity has changed by gravity * delta only.
C2_NoDoubleJump ==
    [][\A delta \in Deltas :
          (InAir /\ renderer'.frame /= renderer.frame /\ Animate(delta)) =>
              /\ inputManager'.jumpTriggered = inputManager.jumpTriggered
              /\ playerController'.currentAnimation = ANIM_NAMES.JUMP
                     => playerController.currentAnimation = ANIM_NAMES.JUMP
              /\ playerController'.isJumping
                     => playerController'.velocityY
                            = playerController.velocityY + Quot(GRAVITY * delta, 100)]_vars

\* The player is falling and a jump trigger is pending.
C2_Witness ==
    /\ HasPlayer
    /\ playerController.isJumping
    /\ playerController.velocityY < 0
    /\ inputManager.jumpTriggered

\* C3: a frame in which the player lands (one that began in the air, or one
\* that consumed the jump trigger on the ground, and ends on the ground) began
\* with the player above the ground.
C3_LandingBeginsAboveGround ==
    [][(/\ HasPlayer
        /\ IsFrame
        /\ \/ playerController.isJumping
           \/ inputManager.jumpTriggered /\ ~inputManager'.jumpTriggered
        /\ ~playerController'.isJumping)
       => player.position.y > 0]_vars

\* C4: whenever the player is on the ground its vertical velocity is 0 and
\* its height is 0.
C4_GroundedAtRest ==
    (HasPlayer /\ ~playerController.isJumping)
        => (playerController.velocityY = 0 /\ player.position.y = 0)

\* The player is on the ground after a tick, away from where it was loaded.
C4_Witness ==
    /\ HasPlayer
    /\ ~playerController.isJumping
    /\ player.position.z /= 0
    /\ \E i \in DOMAIN frameCalls : frameCalls[i] = "playerController.update"

\* C5: a frame that clears a horizontal mouse delta has turned the camera by
\* it, and a frame that turns the camera clears the delta.
C5_DeltaAppliedOnce ==
    [][IsFrame =>
          /\ (inputManager.mouseDeltaX /= 0 /\ inputManager'.mouseDeltaX = 0)
                 => cameraController'.rotationAngle
                        = cameraController.rotationAngle
                              - inputManager.mouseDeltaX * SENSITIVITY_X
          /\ cameraController'.rotationAngle /= cameraController.rotationAngle
                 => inputManager'.mouseDeltaX = 0]_vars

\* C6: at the end of every frame the three accumulators are 0.
C6_AccumulatorsCleared ==
    [][IsFrame =>
          /\ inputManager'.mouseDeltaX = 0
          /\ inputManager'.mouseDeltaY = 0
          /\ inputManager'.zoomDelta = 0]_vars

\* The frame applies the wheel to a camera that follows a player.
IsZoom == IsFrame /\ cameraController.player /= Null /\ inputManager.zoomDelta /= 0

\* Neither the scaled distance nor the scaled height leaves its limits.
InsideLimits ==
    /\ timesZoomFactor(cameraController.zoomDistance, inputManager.zoomDelta)
           \in ZOOM_MIN..ZOOM_MAX
    /\ timesZoomFactor(cameraController.yOffset, inputManager.zoomDelta)
           \in PITCH_LIMIT_MIN_Y..PITCH_LIMIT_MAX_Y

\* The ratio yOffset / zoomDistance is the same before and after the step, up
\* to the rounding of the two products.
SameRatio ==
    Abs(cameraController'.yOffset * cameraController.zoomDistance
            - cameraController.yOffset * cameraController'.zoomDistance)
        < Max(cameraController.yOffset, cameraController.zoomDistance)

C8_FrameOrder ==
    /\ \A i, j \in DOMAIN frameCalls :
           i < j => /\ Rank(frameCalls[i]) <= Rank(frameCalls[j])
                    /\ Rank(frameCalls[j]) > 1 => Rank(frameCalls[i]) < Rank(frameCalls[j])
    /\ (\E i \in DOMAIN frameCalls : frameCalls[i] = "playerController.update")
           => /\ camera.position = cameraPosition(cameraController, player)
              /\ camera.direction = lookAt(camera.position, player)

\* A frame advanced the mixer, then moved the player up, then the camera.
C8_Witness ==
    /\ frameCalls = <<"mixer.update", "playerController.update",
                      "cameraController.update", "renderer.render">>
    /\ player.position.y > 0
    /\ player.position.z /= 0

\* C9: a frame that begins without a player controller makes no player update,
\* creates no player, and leaves the camera and the camera controller's yaw,
\* vertical offset and zoom as they were.
C9_NoPlayerNoWork ==
    [][(~HasPlayer /\ IsFrame) =>
          /\ playerController' = NoObject
          /\ player' = NoObject
          /\ cameraController' = cameraController
          /\ camera' = camera
          /\ frameCalls' = <<"cameraController.update", "renderer.render">>]_vars

\* The load has failed, frames run, the orbit is held with mouse movement
\* pending, and the camera is as it was constructed.
C9_Witness ==
    /\ load[PLAYER_MODEL_CONFIG] = "failed"
    /\ renderer.frame = MaxFrames
    /\ frameCalls = <<"cameraController.update", "renderer.render">>
    /\ orbitHeld(inputManager)
    /\ inputManager.mouseDeltaX /= 0
    /\ cameraController = NewCameraController
    /\ camera = NewCamera

\* C10: no keydown changes jumpTriggered, and jumpTriggered becomes true only
\* in the keyup of Space.
C10_JumpOnRelease ==
    [][/\ \A code \in Codes :
              KeyDown(code) => inputManager'.jumpTriggered = inputManager.jumpTriggered
       /\ (~inputManager.jumpTriggered /\ inputManager'.jumpTriggered)
              => inputManager' = onKeyUp(inputManager, "Space")]_vars

\* Space is held and no jump has been triggered.
C10_Witness == inputManager.keys["Space"] /\ ~inputManager.jumpTriggered

\* C11: jumpTriggered falls only in a frame that begins with the player on
\* the ground, and that frame starts a jump (at its end the player is in the
\* air, or has landed again at height 0); every frame leaves the held keys,
\* the button states and isCanvasActive as they were; and the reset of a frame
\* that follows a player zeroes mouseDeltaX, mouseDeltaY and zoomDelta and
\* leaves jumpTriggered to the player controller.
C11_TriggerClearedByJump ==
    [][/\ (inputManager.jumpTriggered /\ ~inputManager'.jumpTriggered)
              => /\ IsFrame
                 /\ HasPlayer
                 /\ ~playerController.isJumping
                 /\ playerController'.isJumping \/ player'.position.y = 0
       /\ IsFrame
              => /\ inputManager'.keys = inputManager.keys
                 /\ inputManager'.mouseDown = inputManager.mouseDown
                 /\ inputManager'.isCanvasActive = inputManager.isCanvasActive
       /\ (IsFrame /\ InAir)
              => inputManager'.jumpTriggered = inputManager.jumpTriggered
       /\ (IsFrame /\ HasPlayer)
              => /\ inputManager'.mouseDeltaX = 0
                 /\ inputManager'.mouseDeltaY = 0
                 /\ inputManager'.zoomDelta = 0]_vars

\* After a frame in the air: the deltas are zero, the trigger is still
\* pending, Space and the primary button are held over the canvas.
C11_Witness ==
    /\ InAir
    /\ player.position.y > 0
    /\ inputManager.jumpTriggered
    /\ inputManager.keys["Space"]
    /\ inputManager.mouseDown.left
    /\ inputManager.isCanvasActive
    /\ inputManager.mouseDeltaX = 0
    /\ inputManager.zoomDelta = 0
    /\ cameraController.rotationAngle /= INITIAL_ROTATION
    /\ cameraController.zoomDistance /= INITIAL_ZOOM

\* How often the method is called on the action in a sequence of calls.
Count(calls, action, method) ==
    Cardinality({i \in DOMAIN calls : calls[i] = Call(action, method)})

\* The calls of switchAnimation(X) on pc followed by those of a second
\* switchAnimation(X).
TwiceCalls(pc, X) ==
    switchAnimationCalls(pc, X) \o switchAnimationCalls(switchAnimation(pc, X), X)

\* Two calls of switchAnimation(X) in a row on pc, X a clip of the model.
SwitchedOnce(pc, X) ==
    /\ switchAnimation(pc, X).currentAnimation = X
    /\ switchAnimationCalls(switchAnimation(pc, X), X) = <<>>
    /\ switchAnimation(switchAnimation(pc, X), X) = switchAnimation(pc, X)
    /\ pc.currentAnimation = X => TwiceCalls(pc, X) = <<>>
    /\ pc.currentAnimation /= X =>
           /\ Count(TwiceCalls(pc, X), X, "reset") = 1
           /\ Count(TwiceCalls(pc, X), X, "fadeIn") = 1
           /\ Count(TwiceCalls(pc, X), X, "play") = 1
           /\ Len(TwiceCalls(pc, X)) = IF pc.currentAnimation = Null THEN 4 ELSE 5
           /\ pc.currentAnimation /= Null =>
                  Count(TwiceCalls(pc, X), pc.currentAnimation, "fadeOut")
                      + Count(TwiceCalls(pc, X), pc.currentAnimation, "stop") = 1

\* C12: in every state of the player controller and for every clip X of the
\* model, two calls of switchAnimation(X) in a row make X current with one
\* reset, one fadeIn and one play of X and one fadeOut or stop of the clip
\* that was current (none of these if X was current already), and the second
\* call makes no call and changes nothing.
C12_SwitchIdempotent ==
    (HasPlayer /\ playerController.modelAnimations /= NoObject)
        => \A X \in DOMAIN playerController.modelAnimations.actions :
               SwitchedOnce(playerController, X)

\* The walk clip has replaced the idle clip.
C12_Witness ==
    /\ HasPlayer
    /\ playerController.modelAnimations /= NoObject
    /\ playerController.currentAnimation = ANIM_NAMES.WALK
    /\ playerController.modelAnimations.actions[ANIM_NAMES.WALK].run = "fadeIn"
    /\ playerController.modelAnimations.actions[ANIM_NAMES.IDLE].run = "fadeOut"

\* The names switchAnimation is called with: the clips of ANIM_NAMES and the
\* Land clip it does not define.
AnimNames == ClipNames \cup {LAND}

\* The clips of the model of pc.
ClipsOf(pc) ==
    IF pc.modelAnimations = NoObject THEN {} ELSE DOMAIN pc.modelAnimations.actions

\* C13: in every state of the player controller, switchAnimation with a name
\* that has no clip in the model (every name, if the model has no animations)
\* makes no call on any action and leaves the controller, its current
\* animation and every action as they are.
C13_MissingClipIsNoOp ==
    HasPlayer =>
        \A X \in AnimNames \ ClipsOf(playerController) :
            /\ switchAnimationCalls(playerController, X) = <<>>
            /\ switchAnimation(playerController, X) = playerController

\* A jump has been started on a model without animations, and a model
\* without the fall clip is falling with the jump clip current.
C13_Witness ==
    /\ InAir
    /\ playerController.velocityY < 0
    /\ \/ playerController.modelAnimations = NoObject
          /\ playerController.currentAnimation = Null
       \/ ClipsOf(playerController) = ClipNames \ {ANIM_NAMES.FALL}
          /\ playerController.currentAnimation = ANIM_NAMES.JUMP

\* A movement key is held.
MovementKeyHeld(im) == \E code \in {"KeyW", "KeyA", "KeyS", "KeyD"} : im.keys[code]

\* A sprint key is held.
SprintKeyHeld(im) == \E code \in {"ShiftLeft", "ShiftRight"} : im.keys[code]

\* C14: after every frame that ends with the player on the ground, the model
\* having the Idle, Walk and Run clips and no Land clip, the current animation
\* is Run if a movement key and a sprint key are held, Walk if a movement key
\* is held without a sprint key, and Idle otherwise; the landing frame and the
\* first frame after a key event included.
C14_GroundAnimationFollowsInput ==
    [][(/\ IsFrame
        /\ HasPlayer
        /\ ~playerController'.isJumping
        /\ {ANIM_NAMES.IDLE, ANIM_NAMES.WALK, ANIM_NAMES.RUN} \subseteq ClipsOf(playerController)
        /\ LAND \notin ClipsOf(playerController))
       => playerController'.currentAnimation =
              IF MovementKeyHeld(inputManager')
              THEN (IF SprintKeyHeld(inputManager')
                    THEN ANIM_NAMES.RUN ELSE ANIM_NAMES.WALK)
              ELSE ANIM_NAMES.IDLE]_vars

\* The player has landed from a jump (the jump clip has been faded out) and
\* the Run clip is current with a movement key and a sprint key held.
C14_Witness ==
    /\ HasPlayer
    /\ ~playerController.isJumping
    /\ playerController.currentAnimation = ANIM_NAMES.RUN
    /\ playerController.modelAnimations.actions[ANIM_NAMES.JUMP].run = "fadeOut"
    /\ MovementKeyHeld(inputManager)
    /\ SprintKeyHeld(inputManager)

\* C15: after every frame that ends with the player in the air, the model
\* having the JumpUp clip, the current animation is none of Idle, Walk and
\* Run; if the model has the Fall clip as well it is Fall if velocityY <= 0 and
\* JumpUp otherwise.
C15_AirAnimation ==
    [][(/\ IsFrame
        /\ HasPlayer
        /\ playerController'.isJumping
        /\ ANIM_NAMES.JUMP \in ClipsOf(playerController))
       => /\ playerController'.currentAnimation
                 \notin {ANIM_NAMES.IDLE, ANIM_NAMES.WALK, ANIM_NAMES.RUN}
          /\ ANIM_NAMES.FALL \in ClipsOf(playerController)
                 => playerController'.currentAnimation =
                        IF playerController'.velocityY <= 0
                        THEN ANIM_NAMES.FALL ELSE ANIM_NAMES.JUMP]_vars

\* The player is falling with the Fall clip current and the JumpUp clip
\* faded out.
C15_Witness ==
    /\ InAir
    /\ playerController.velocityY <= 0
    /\ playerController.currentAnimation = ANIM_NAMES.FALL
    /\ playerController.modelAnimations.actions[ANIM_NAMES.JUMP].run = "fadeOut"

\* The frame is the first of a jump in which the player no longer rises: the
\* height the frame began at is the greatest height of the jump.
IsApex ==
    /\ IsFrame
    /\ InAir
    /\ playerController.velocityY > 0
    /\ playerController'.velocityY <= 0

\* C16: the greatest height of a jump, reached when the player stops rising,
\* is JUMP_HEIGHT up to the tolerance.
C16_PeakIsJumpHeight ==
    [][IsApex => Abs(player.position.y - JUMP_HEIGHT * 100) <= HeightTolerance]_vars

\* The unit vector (length 1000) of the camera's viewing direction projected
\* on the horizontal plane.
HorizontalForward(cam) == normalize(Vector3(cam.direction.x, 0, cam.direction.z))

\* KeyW is the only movement key held.
OnlyForward(im) ==
    /\ im.keys["KeyW"]
    /\ ~im.keys["KeyA"] /\ ~im.keys["KeyS"] /\ ~im.keys["KeyD"]

\* Vector v (1/1000) is the direction dir (unit 1000) times speed (1/1000),
\* up to the tolerance in each component.
IsScaled(v, dir, speed) ==
    /\ Abs(v.x * 1000 - dir.x * speed) <= SpeedTolerance * 1000
    /\ v.y = 0
    /\ Abs(v.z * 1000 - dir.z * speed) <= SpeedTolerance * 1000

\* The distance of the player from the origin in the horizontal plane, 1/1000.
PlanarDistance(pl) ==
    Sqrt(lengthSq(Vector3(Quot(pl.position.x, 100), 0, Quot(pl.position.z, 100))))

\* C17: every tick of a frame of duration delta adds exactly
\* horizontalVelocity * delta to the player's x and z, on the ground and in the
\* air; a tick that begins and ends on the ground leaves y alone; and in a
\* tick that begins on the ground with KeyW the only movement key held the
\* horizontal velocity is the camera's horizontal forward direction times
\* WALK_SPEED, or times RUN_SPEED with a sprint key held, with no sideways and
\* no vertical component.  (Sixty such ticks of 1/60 s therefore move the
\* player 60 * 3.5 / 60 = 3.5 units along that direction.)
C17_HorizontalMotion ==
    [][\A delta \in {DeltaShort, DeltaLong} :
         (HasPlayer /\ Animate(delta))
         => /\ player'.position.x = player.position.x
                    + playerController'.horizontalVelocity.x * delta
            /\ player'.position.z = player.position.z
                    + playerController'.horizontalVelocity.z * delta
            /\ (~playerController.isJumping /\ ~playerController'.isJumping)
                   => player'.position.y = player.position.y
            /\ (~playerController.isJumping /\ OnlyForward(inputManager))
                   => IsScaled(playerController'.horizontalVelocity,
                               HorizontalForward(camera),
                               IF SprintKeyHeld(inputManager)
                               THEN RUN_SPEED ELSE WALK_SPEED)]_vars

\* The player stands on the ground 3.5 units from the origin after four
\* frames of 0.25 s walking with KeyW, the first frame having been idle.
C17_Witness ==
    /\ HasPlayer
    /\ ~playerController.isJumping
    /\ renderer.frame = 5
    /\ OnlyForward(inputManager)
    /\ playerController.movementSpeed = WALK_SPEED
    /\ player.position.y = 0
    /\ Abs(PlanarDistance(player) - WALK_SPEED) <= SpeedTolerance

\* The secondary button is held, or the primary button is held with the
\* pointer over the canvas.
OrbitButtons ==
    \/ inputManager.mouseDown.right
    \/ inputManager.mouseDown.left /\ inputManager.isCanvasActive

\* The frame turns the vertical offset by the accumulated mouseDeltaY and
\* clamps it.
PitchFollowsMouse ==
    cameraController'.yOffset =
        clamp(cameraController.yOffset
                  + inputManager.mouseDeltaY * SENSITIVITY_Y * 2,
              PITCH_LIMIT_MIN_Y, PITCH_LIMIT_MAX_Y)

\* The frame leaves the three numbers of the orbit alone.
OrbitUnchanged ==
    /\ cameraController'.rotationAngle = cameraController.rotationAngle
    /\ cameraController'.yOffset = cameraController.yOffset
    /\ cameraController'.zoomDistance = cameraController.zoomDistance

\* C18 as stated: in a frame with the orbit buttons held rotationAngle
\* increases by mouseDeltaX * SENSITIVITY_X and the vertical offset follows
\* mouseDeltaY; without them and without wheel input the orbit is unchanged.
C18_YawIncreases ==
    [][(IsFrame /\ inputManager.zoomDelta = 0)
       => IF OrbitButtons
          THEN /\ cameraController'.rotationAngle =
                      cameraController.rotationAngle
                          + inputManager.mouseDeltaX * SENSITIVITY_X
               /\ PitchFollowsMouse
          ELSE OrbitUnchanged]_vars

\* C18: in a frame of a camera that follows a player, without wheel input:
\* with the orbit buttons held rotationAngle decreases by
\* mouseDeltaX * SENSITIVITY_X and the vertical offset increases by
\* mouseDeltaY * SENSITIVITY_Y * 2 and is then clamped; without the orbit
\* buttons rotationAngle, vertical offset and zoom distance are unchanged.
C18_YawDecreases ==
    [][(IsFrame /\ inputManager.zoomDelta = 0 /\ cameraController.player /= Null)
       => IF OrbitButtons
          THEN /\ cameraController'.rotationAngle =
                      cameraController.rotationAngle
                          - inputManager.mouseDeltaX * SENSITIVITY_X
               /\ PitchFollowsMouse
          ELSE OrbitUnchanged]_vars

\* Frames with the orbit buttons held have turned the camera to a smaller
\* rotationAngle and raised the vertical offset to its upper limit.
C18_Witness ==
    /\ cameraController.player /= Null
    /\ cameraController.rotationAngle < INITIAL_ROTATION
    /\ cameraController.yOffset = PITCH_LIMIT_MAX_Y
    /\ OrbitButtons

\* The pointer is captured, or the primary button is held with the pointer
\* over the canvas.
MayAccumulate ==
    \/ document.pointerLockElement = "body"
    \/ inputManager.mouseDown.left /\ inputManager.isCanvasActive

\* The step is an input event that changes a mouse accumulator.
Accumulates ==
    /\ ~IsFrame
    /\ \/ inputManager'.mouseDeltaX /= inputManager.mouseDeltaX
       \/ inputManager'.mouseDeltaY /= inputManager.mouseDeltaY

\* C19: a mousemove adds its movement to mouseDeltaX/Y only while the pointer
\* is captured or the primary button is held with the pointer over the canvas;
\* in every other state it leaves the accumulators unchanged.
C19_AccumulateOnlyOverCanvas == [][Accumulates => MayAccumulate]_vars

C21_CaptureFollowsButton ==
    document.pointerLockElement = "body" => inputManager.mouseDown.right

\* The two keys mapped to sprint.
ShiftCodes == {"ShiftLeft", "ShiftRight"}

\* C22: isSprinting() is true exactly when at least one shift key is held:
\* it is true after the keydown of a shift key, after the keyup of a shift key
\* it is true exactly if the other shift key is held, and the events of every
\* other key leave it as it was.
C22_SprintIsOr ==
    [][\A code \in Codes :
          /\ KeyDown(code)
                 => (isSprinting(inputManager')
                        <=> (code \in ShiftCodes \/ isSprinting(inputManager)))
          /\ KeyUp(code)
                 => (isSprinting(inputManager')
                        <=> \E other \in ShiftCodes \ {code} :
                               inputManager.keys[other])]_vars

\* Sprint is on with the right shift key held and the left one released.
C22_Witness ==
    /\ inputManager.keys["ShiftRight"]
    /\ ~inputManager.keys["ShiftLeft"]
    /\ isSprinting(inputManager)

\* In controller pc the current animation, if any, is fading in or at full
\* weight, and every other action is stopped or has been faded out.
OneActive(pc) ==
    \A clip \in ClipsOf(pc) :
        IF clip = pc.currentAnimation
        THEN pc.modelAnimations.actions[clip].run = "fadeIn"
        ELSE pc.modelAnimations.actions[clip].run \in {"stopped", "fadeOut"}

\* After switchAnimation(X) on pc the current animation is X if X has a clip
\* and is what it was otherwise.
LastExisting(pc, X) ==
    switchAnimation(pc, X).currentAnimation =
        IF X \in ClipsOf(pc) THEN X ELSE pc.currentAnimation

\* switchAnimation(X) on pc makes the last existing target current and leaves
\* one clip active.
SwitchKeepsOne(pc, X) ==
    /\ LastExisting(pc, X)
    /\ OneActive(switchAnimation(pc, X))

\* C23: at most one clip is active.  In every state reached by the calls of
\* switchAnimation the frames make, and after any two further calls with
\* arbitrary names, the current animation is the target of the last call
\* whose clip exists, it alone is fading in or at full weight, and every
\* other action is stopped or faded out.
C23_OneClipActive ==
    HasPlayer =>
        /\ OneActive(playerController)
        /\ \A X \in AnimNames :
               /\ SwitchKeepsOne(playerController, X)
               /\ \A Y \in AnimNames :
                      SwitchKeepsOne(switchAnimation(playerController, X), Y)

\* The Land clip is current after a jump: the jump and fall clips have been
\* faded out, the idle clip as well.
C23_Witness ==
    /\ HasPlayer
    /\ playerController.currentAnimation = LAND
    /\ playerController.modelAnimations.actions[ANIM_NAMES.JUMP].run = "fadeOut"
    /\ playerController.modelAnimations.actions[ANIM_NAMES.FALL].run = "fadeOut"
    /\ playerController.modelAnimations.actions[ANIM_NAMES.IDLE].run = "fadeOut"
    /\ OneActive(playerController)

\* C24: in every state with a current animation, switchAnimation to another
\* existing clip stops the outgoing action at once, without a fadeOut, if it
\* is the Land clip, and fades it out, without a stop, if it is any other.
C24_LandCutsInstantly ==
    (HasPlayer /\ playerController.currentAnimation /= Null) =>
        \A X \in ClipsOf(playerController) \ {playerController.currentAnimation} :
            LET current == playerController.currentAnimation
                calls == switchAnimationCalls(playerController, X)
                after == switchAnimation(playerController, X)
            IN  IF current = LAND
                THEN /\ Count(calls, current, "stop") = 1
                     /\ Count(calls, current, "fadeOut") = 0
                     /\ after.modelAnimations.actions[current].run = "stopped"
                ELSE /\ Count(calls, current, "fadeOut") = 1
                     /\ Count(calls, current, "stop") = 0
                     /\ after.modelAnimations.actions[current].run = "fadeOut"

\* A jump has begun from the Land clip: the jump clip is current and the Land
\* action, played before, is stopped, while the idle action is faded out.
C24_Witness ==
    /\ InAir
    /\ LAND \in ClipsOf(playerController)
    /\ playerController.currentAnimation = ANIM_NAMES.JUMP
    /\ playerController.modelAnimations.actions[LAND].run = "stopped"
    /\ playerController.modelAnimations.actions[LAND].loop = LoopOnce
    /\ playerController.modelAnimations.actions[ANIM_NAMES.IDLE].run = "fadeOut"

\* The ground animations that loop.
GroundAnims == {ANIM_NAMES.IDLE, ANIM_NAMES.WALK, ANIM_NAMES.RUN}

\* The model has the Land clip and it is the current animation, on the ground.
LandCurrent ==
    /\ HasPlayer
    /\ ~playerController.isJumping
    /\ LAND \in ClipsOf(playerController)
    /\ playerController.currentAnimation = LAND

\* C25: with the Land clip current, a frame that begins and ends on the
\* ground does not switch the animation to Idle, Walk or Run, whatever
\* movement and sprint keys are held: the Land clip stays current and no
\* action is touched.
C25_LandNotInterrupted ==
    [][(IsFrame /\ LandCurrent /\ ~playerController'.isJumping)
       => /\ playerController'.currentAnimation \notin GroundAnims
          /\ playerController'.currentAnimation = LAND
          /\ playerController'.modelAnimations
                 = playerController.modelAnimations]_vars

\* The player runs on the ground, several frames after a landing, with the
\* Land clip still current.
C25_Witness ==
    /\ LandCurrent
    /\ MovementKeyHeld(inputManager)
    /\ SprintKeyHeld(inputManager)
    /\ playerController.movementSpeed = RUN_SPEED
    /\ lengthSq(playerController.horizontalVelocity) > 0
    /\ renderer.frame = MaxFrames

\* C26: a frame leaves the player's orientation unchanged if the player is
\* in the air after the physics step of its tick (the takeoff tick included),
\* if no movement key is held, or if the squared horizontal speed is not above
\* MOVEMENT_INPUT_THRESHOLD.
C26_RotationOnlyGroundedMoving ==
    [][(/\ IsFrame
        /\ HasPlayer
        /\ \/ playerController'.isJumping
           \/ ~MovementKeyHeld(inputManager)
           \/ lengthSq(playerController'.horizontalVelocity)
                  <= MOVEMENT_INPUT_THRESHOLD)
       => player'.quaternion = player.quaternion]_vars

\* The player is falling with a movement key held and a horizontal velocity,
\* turned part of the way towards the direction of travel by the grounded
\* frames before the jump.
C26_Witness ==
    /\ InAir
    /\ playerController.velocityY < 0
    /\ MovementKeyHeld(inputManager)
    /\ lengthSq(playerController.horizontalVelocity) > MOVEMENT_INPUT_THRESHOLD
    /\ player.quaternion /= 0
    /\ player.quaternion /= setFromUnitVectors(normalize(playerController.horizontalVelocity))

\* update, the clamp of the vertical offset (after the pitch and after the zoom)
offsetClamp(v) == clamp(v, PITCH_LIMIT_MIN_Y, PITCH_LIMIT_MAX_Y)

\* update, the clamp of the zoom distance
zoomClamp(v) == Max(ZOOM_MIN, Min(ZOOM_MAX, v))

\* In-range, boundary and out-of-range values, negative ones included.
ClampInputs ==
    {k * ClampStep : k \in -ClampSteps .. ClampSteps}
        \cup {limit + d : limit \in {PITCH_LIMIT_MIN_Y, PITCH_LIMIT_MAX_Y,
                                     ZOOM_MIN, ZOOM_MAX},
                          d \in {-1, 0, 1}}

\* C27: the clamp of the vertical offset and the clamp of the zoom distance
\* are idempotent: applied twice in a row they give what they give applied
\* once, for in-range, boundary and out-of-range values and for the values
\* the frames have left in the camera controller.
C27_ClampIdempotent ==
    \A v \in ClampInputs \cup {cameraController.yOffset,
                               cameraController.zoomDistance,
                               cameraController.yOffset
                                   + inputManager.mouseDeltaY * SENSITIVITY_Y * 2,
                               timesZoomFactor(cameraController.yOffset,
                                               inputManager.zoomDelta),
                               timesZoomFactor(cameraController.zoomDistance,
                                               inputManager.zoomDelta)} :
        /\ offsetClamp(offsetClamp(v)) = offsetClamp(v)
        /\ zoomClamp(zoomClamp(v)) = zoomClamp(v)

\* A frame has clamped the vertical offset twice in a row, after the drag and
\* after the zoom, and left it at the upper limit; the drag and the wheel
\* delta accumulated since would take it out of range again.
C27_Witness ==
    /\ cameraController.player /= Null
    /\ renderer.frame > 0
    /\ cameraController.yOffset = PITCH_LIMIT_MAX_Y
    /\ cameraController.zoomDistance > INITIAL_ZOOM
    /\ OrbitButtons
    /\ inputManager.mouseDeltaY > 0
    /\ inputManager.zoomDelta > 0

\* C28: a Space release that arrives during a flight is not lost.  No event
\* clears a pending jumpTriggered; a frame that begins in the air leaves it
\* pending, the landing frame included; and a frame that begins on the ground
\* with it pending consumes it and starts a jump: the player is in the air
\* and rising after it, without any further key event.
C28_AirborneReleaseKept ==
    [][inputManager.jumpTriggered
       => IF ~IsFrame \/ ~HasPlayer \/ playerController.isJumping
          THEN inputManager'.jumpTriggered
          ELSE /\ ~inputManager'.jumpTriggered
               /\ playerController'.isJumping
               /\ playerController'.velocityY > 0
               /\ player'.position.y > 0]_vars

\* The player is falling, more than one frame into a running jump, with a
\* jump trigger pending: the takeoff consumed the trigger that started the
\* jump, so this one was raised by a Space release during the flight.
C28_Witness ==
    /\ InAir
    /\ playerController.velocityY < 0
    /\ playerController.movementSpeed = RUN_SPEED
    /\ inputManager.jumpTriggered
    /\ ~inputManager.keys["Space"]
    /\ player.position.y > 0

\* The player stands on the ground.
Grounded ==
    /\ HasPlayer
    /\ ~playerController.isJumping
    /\ player.position.y = 0

\* C29: every jump ends.  If frames of positive duration keep occurring, a
\* player in the air is eventually on the ground again with y = 0, whatever
\* the durations of the frames and the key events are.
C29_EveryJumpEnds == InAir ~> Grounded

\* The player is falling from the height of a jump.
C29_Witness ==
    /\ InAir
    /\ playerController.velocityY < 0
    /\ player.position.y > 0

\* C30: with a Land clip in the model, a player who has landed and stays on
\* the ground eventually gets a looping ground animation again: from a state
\* with the Land clip current on the ground, if frames keep occurring, either
\* a new jump begins or the current animation becomes Idle, Walk or Run.
C30_LandGivesWayToGround ==
    LandCurrent ~> (InAir \/ (HasPlayer /\ playerController.currentAnimation \in GroundAnims))


\* C31: at every tick boundary the height of the player is between the ground
\* and JUMP_HEIGHT, and above the ground whenever the player is in the air.
C31_HeightBounds ==
    (HasPlayer /\ player /= NoObject) =>
        /\ 0 <= player.position.y
        /\ player.position.y <= JUMP_HEIGHT * 100
        /\ playerController.isJumping => player.position.y > 0

\* The player is in the air, no longer rising, within the tolerance of
\* JUMP_HEIGHT: the top of a jump made of fine ticks.
C31_Witness ==
    /\ InAir
    /\ playerController.velocityY <= 0
    /\ player.position.y > (JUMP_HEIGHT - HeightTolerance) * 100
    /\ player.position.y <= JUMP_HEIGHT * 100

\* C32: a frame that ends with the player on the ground and the walk or the
\* run clip current has computed a horizontal velocity that is not zero.
C32_WalkingMeansMoving ==
    [][(IsFrame /\ playerController' /= NoObject
            /\ ~playerController'.isJumping
            /\ playerController'.currentAnimation \in {ANIM_NAMES.WALK, ANIM_NAMES.RUN})
           => playerController'.horizontalVelocity /= ZeroVector]_vars

\* The player controller and the follow target of the camera controller are
\* attached, both to the model of the configuration flagged isPlayer.
Attached ==
    /\ playerController /= NoObject
    /\ player /= NoObject
    /\ cameraController.player = PLAYER_MODEL_CONFIG
    /\ isPlayer(cameraController.player)
    /\ load[PLAYER_MODEL_CONFIG] = "loaded"

\* Neither is attached.
Detached ==
    /\ playerController = NoObject
    /\ player = NoObject
    /\ cameraController.player = Null
    /\ load[PLAYER_MODEL_CONFIG] /= "loaded"

\* C33: whatever the order and the outcomes of the loads, before and after
\* every step (frames included) the player controller exists exactly when the
\* camera controller has a follow target, both belong to the model flagged
\* isPlayer, and once attached neither is replaced: the follow target stays,
\* and the controller and its model change in frames only, where they remain.
C33_AttachmentConsistent ==
    [][/\ Attached \/ Detached
       /\ Attached' \/ Detached'
       /\ Attached =>
              /\ Attached'
              /\ cameraController'.player = cameraController.player
              /\ ~IsFrame => /\ playerController' = playerController
                              /\ player' = player]_vars

\* The player model loaded after another model with clips had loaded and a
\* third had failed; a further model has loaded since, and frames have run
\* before and after the attachment.
C33_Witness ==
    /\ Attached
    /\ Len(mixers) >= 3
    /\ mixers[1] /= PLAYER_MODEL_CONFIG
    /\ mixers[Len(mixers)] /= PLAYER_MODEL_CONFIG
    /\ \E config \in allModelConfigs : load[config] = "failed"
    /\ renderer.frame = ZoomFrames
    /\ player.position /= ZeroVector

\* What a tick leaves of the motion of the player: where the model is and how
\* it is turned, the velocities, the jump state, and the pending jump trigger.
MotionOf(t) ==
    [position |-> t.pl.position,
     quaternion |-> t.pl.quaternion,
     horizontalVelocity |-> t.pc.horizontalVelocity,
     movementSpeed |-> t.pc.movementSpeed,
     velocityY |-> t.pc.velocityY,
     isJumping |-> t.pc.isJumping,
     jumpTriggered |-> t.im.jumpTriggered]

\* The clip sets of the second controller: none, all, all but the fall clip,
\* and all with a clip of the Land name.
TwinClipSets == ClipSets \cup LandClipSets

\* A second controller, constructed on a model with the given clips, that has
\* made current as its last switch, and whose motion is that of pc.
Twin(pc, clips, current) ==
    LET fresh == NewPlayerController(modelAnimationsOf(clips))
    IN  [switchAnimation(fresh, current) EXCEPT
            !.movementSpeed = pc.movementSpeed,
            !.horizontalVelocity = pc.horizontalVelocity,
            !.velocityY = pc.velocityY,
            !.isJumping = pc.isJumping]

\* The motion after a tick of pc.
MotionAfter(pc, delta) ==
    MotionOf(update(pc, player, inputManager, camera, delta))

\* C34: the motion does not depend on the clips.  Two controllers constructed
\* on models with different clip sets start with the same motion, and from
\* every state of the program a tick of any duration leaves a second
\* controller, with any clip set and any clip current but the same motion and
\* input, with the motion it leaves the program's controller with: by
\* induction over the ticks the two agree after every tick.
C34_MotionIgnoresClips ==
    /\ \A clips \in TwinClipSets :
           MotionOf(Tick(NewPlayerController(modelAnimationsOf(clips)),
                         loadedModel, NewInputManager))
               = MotionOf(Tick(NewPlayerController(NoObject), loadedModel,
                               NewInputManager))
    /\ HasPlayer =>
           \A delta \in Deltas, clips \in TwinClipSets, current \in AnimNames :
               MotionAfter(Twin(playerController, clips, current), delta)
                   = MotionAfter(playerController, delta)

\* A walking jump of a controller whose model has clips is rising with the
\* jump clip current: its twins without clips are in the same jump.
C34_Witness ==
    /\ InAir
    /\ playerController.velocityY > 0
    /\ player.position.y > 0
    /\ playerController.movementSpeed = WALK_SPEED
    /\ playerController.horizontalVelocity /= ZeroVector
    /\ playerController.currentAnimation = ANIM_NAMES.JUMP

\* The keys whose held state the claim is about.
TrackedCodes == MoveCodes \cup ShiftCodes

\* A key the input manager does not track.
OtherCode == "Tab"

\* C35: no key is recorded as held before the first event, and in every state
\* of the input manager, whichever keys are held (the shift keys included),
\* the keydown handler for a key records that key as held, the keyup handler
\* records it as not held, and both leave the record of every other key as it
\* was, as do the events of a key that is not tracked.  Each key is therefore
\* recorded as held exactly when its last event was a keydown.
C35_HeldKeysTracked ==
    /\ \A code \in TrackedCodes : ~NewInputManager.keys[code]
    /\ \A code \in Codes :
           /\ onKeyDown(inputManager, code).keys
                  = [inputManager.keys EXCEPT ![code] = TRUE]
           /\ onKeyUp(inputManager, code).keys
                  = [inputManager.keys EXCEPT ![code] = FALSE]
    /\ onKeyDown(inputManager, OtherCode).keys = inputManager.keys
    /\ onKeyUp(inputManager, OtherCode).keys = inputManager.keys

\* A movement key was released while a shift key was held and another
\* movement key stays down.
C35_Witness ==
    /\ inputManager.keys.ShiftRight
    /\ ~inputManager.keys.ShiftLeft
    /\ ~inputManager.keys.KeyW
    /\ inputManager.keys.KeyD
    /\ ~inputManager.keys.KeyA
    /\ ~inputManager.keys.KeyS

\* The letter keys among the physical keys followed, and the name each is
\* recorded under.
LegacyLetters == {"KeyW", "KeyS"}

recorded(code) == IF code = "KeyW" THEN "w" ELSE "s"

\* No movement key is physically down.
HandsOff == document.keyboard \cap LegacyLetters = {}

\* C36: in the legacy revision, the release of a movement key that is recorded
\* as held, made while the shift key is down, leaves it recorded as held; and
\* a frame on the ground that begins with no movement key physically down and
\* the forward or the backward key (not both) still recorded moves the player.
C36_ReleaseUnderShiftKeepsKey ==
    [][/\ \A code \in LegacyLetters :
             (LegacyKeyUp(code) /\ "ShiftLeft" \in document.keyboard
                  /\ inputManager.keys[recorded(code)])
                 => inputManager'.keys[recorded(code)]
       /\ (LegacyAnimate /\ HasPlayer /\ HandsOff
               /\ ~playerController.isJumping /\ ~inputManager.jumpTriggered
               /\ inputManager.keys.w /= inputManager.keys.s)
              => /\ player'.position /= player.position
                 /\ playerController'.horizontalVelocity /= ZeroVector]_vars

\* No key is down any more, the forward key is still recorded as held, shift
\* is not, and the player has walked on through the last frame followed.
C36_Witness ==
    /\ HasPlayer
    /\ document.keyboard = {}
    /\ inputManager.keys.w
    /\ ~inputManager.keys.s
    /\ ~inputManager.keys.shift
    /\ renderer.frame = ZoomFrames
    /\ playerController.movementSpeed = LEGACY_WALK_STEP
    /\ playerController.horizontalVelocity /= ZeroVector
    /\ player.position.z < -2 * LEGACY_WALK_STEP

=============================================================================
